---------------------------- MODULE Spec2Model ----------------------------
(***************************************************************************)
(* A model of pymeteo/skewt.py: the readers that build a sounding profile  *)
(* (plot_sounding_data, plot_cm1), the analysis facade                     *)
(* (calc_sounding_stats, calc_hodograph_stats), the annotation of the      *)
(* surface parcel levels (plot_sounding), the hodograph trace              *)
(* (plot_hodograph), the background of the axes (draw_isobars,             *)
(* draw_moist_adiabat) and the labels with their font scale.               *)
(*                                                                         *)
(* Arrays are functions over 0..n-1, as in Python.  Winds are fixed-point  *)
(* numbers in hundredths (1 m/s = 100), so the sentinel -9999. stored in a *)
(* wind array is -999900.  Heights are metres, pressures Pa.               *)
(***************************************************************************)
EXTENDS Integers, Sequences, FiniteSets, TLC

VARIABLES
  skew_angle, Tmin, Tmax, pbot, ptop, dp,  \* module tunables (skewt.py 72-86)
  call,     \* the function of the module that ran last ("idle" between calls)
  args,     \* its arguments as passed
  after,    \* the argument arrays as the caller sees them on return
  result,   \* what it returned, raised, handed to plot or drew
  bunkers_fail, \* how dyn.storm_motion_bunkers reports that it has no estimate
  fontscalefactor  \* the module's font scale (skewt.py 96)

vars == <<skew_angle, Tmin, Tmax, pbot, ptop, dp, call, args, after, result,
          bunkers_fail, fontscalefactor>>

tunables == <<skew_angle, Tmin, Tmax, pbot, ptop, dp>>

---------------------------------------------------------------------------
(* Bounds of the model and constants of the program.                       *)

MaxLevels == 4          \* most levels of a sounding file
MISSING == -9999        \* "Missing values should be filled with the value -9999.00"

Heights == {0, 1000, 3000, 6000}
Dirs == {90, 180, MISSING}
Spds == {6, 12, MISSING}

Range(f) == {f[i] : i \in DOMAIN f}

\* Op applied to the value of x, the value computed once
With(x, Op(_)) == CHOOSE r \in {Op(a) : a \in {x}} : TRUE

Max(S) == CHOOSE x \in S : \A y \in S : y <= x
Min(S) == CHOOSE x \in S : \A y \in S : x <= y

\* arrays of length n over a value set
Arrays(n, S) == [0..(n-1) -> S]

StrictlyIncreasing(a) == \A i, j \in DOMAIN a : i < j => a[i] < a[j]
StrictlyDecreasing(a) == \A i, j \in DOMAIN a : i < j => a[i] > a[j]

---------------------------------------------------------------------------
(* pymeteo.dynamics / pymeteo.interp / pymeteo.thermo helpers used by the  *)
(* sounding-file reader.                                                   *)

\* sin and cos of a direction in degrees, in hundredths; -9999 deg = 81 deg
SinCenti(d) ==
  CASE d % 360 = 0   -> 0
    [] d % 360 = 90  -> 100
    [] d % 360 = 180 -> 0
    [] d % 360 = 270 -> -100
    [] d % 360 = 81  -> 99

CosCenti(d) ==
  CASE d % 360 = 0   -> 100
    [] d % 360 = 90  -> 0
    [] d % 360 = 180 -> -100
    [] d % 360 = 270 -> 0
    [] d % 360 = 81  -> 16

\* dyn.wind_deg_to_uv(direction, speed): the wind blows FROM direction
wind_deg_to_uv(direction, speed) ==
  << -(speed * SinCenti(direction)), -(speed * CosCenti(direction)) >>

RECURSIVE GCD(_, _)
GCD(a, b) == IF b = 0 THEN a ELSE GCD(b, a % b)

Abs(x) == IF x < 0 THEN -x ELSE x

\* floor(a * b / c) for c > 0, computed without leaving 32 bits
MulDiv(a, b, c) ==
  With(<<a, b \div GCD(Abs(b), c), c \div GCD(Abs(b), c)>>,
       LAMBDA t : (t[1] \div t[3]) * t[2] + ((t[1] % t[3]) * t[2]) \div t[3])

\* pymeteo.interp.linear(xs, ys, x): xs is monotonic; between the two samples
\* that bracket x, and from the nearest end pair when x is outside xs
linear(xs, ys, x) ==
  LET n    == Cardinality(DOMAIN xs)
      inc  == xs[n - 1] > xs[0]
      in(i) == IF inc THEN xs[i] <= x /\ x <= xs[i + 1]
                      ELSE xs[i] >= x /\ x >= xs[i + 1]
      segs == {i \in 0..(n - 2) : in(i)}
      i    == IF segs # {} THEN Min(segs)
              ELSE IF (inc /\ x < xs[0]) \/ (~inc /\ x > xs[0]) THEN 0
              ELSE n - 2
  IN  IF inc
        THEN ys[i] + MulDiv(ys[i + 1] - ys[i], x - xs[i], xs[i + 1] - xs[i])
        ELSE ys[i] + MulDiv(ys[i] - ys[i + 1], x - xs[i], xs[i] - xs[i + 1])

\* met.theta(T, p) and the mixing ratio of lines 248-250, as terms
theta(Tk, p) == [fn |-> "theta", T |-> Tk, p |-> p]
es(Tk) == [fn |-> "es", T |-> Tk]
T00 == 27315            \* met.T00 = 273.15 K, in hundredths

---------------------------------------------------------------------------
(* plot_sounding_data (skewt.py 162-255)                                   *)

\* the test of lines 198, 210, 212 and 214
BothMissing(wdir, wspd, k) == wdir[k] = MISSING /\ wspd[k] = MISSING

\* lines 197-201: the first loop
ConvertWinds(nk, wdir, wspd) ==
  [k \in 0..(nk-1) |->
     IF BothMissing(wdir, wspd, k)
       THEN << MISSING * 100, MISSING * 100 >>
       ELSE wind_deg_to_uv(wdir[k], wspd[k])]

\* line 212-213: while kb >= 0 and missing: kb -= 1
RECURSIVE ScanDown(_, _, _)
ScanDown(wdir, wspd, kb) ==
  IF kb >= 0 /\ BothMissing(wdir, wspd, kb)
    THEN ScanDown(wdir, wspd, kb - 1)
    ELSE kb

\* a scan that looks at one level only
ScanUpNoLoop(nk, wdir, wspd, ke) ==
  IF ke <= nk - 1 /\ BothMissing(wdir, wspd, ke) THEN ke + 1 ELSE ke

\* line 214-215: while ke <= nk-1 and missing: ke += 1
RECURSIVE ScanUp(_, _, _, _)
ScanUp(nk, wdir, wspd, ke) ==
  IF ke <= nk - 1 /\ BothMissing(wdir, wspd, ke)
    THEN ScanUp(nk, wdir, wspd, ke + 1)
    ELSE ke

\* lines 205-207 and 219-224: the two-sample arrays _z, _u, _v
Pair(a, b) == (0 :> a @@ 1 :> b)

\* lines 211-234: the body of the second loop for one missing level k;
\* w is the wind array (pairs <<u, v>>) so far.  An index past the end of
\* the array raises IndexError.
FillLevel(nk, z, wdir, wspd, w, k) ==
  LET kb == ScanDown(wdir, wspd, k)
      ke == ScanUp(nk, wdir, wspd, k)
  IN  IF kb >= 0 /\ ke <= nk - 1
        THEN [ok |-> TRUE,
              w  |-> [w EXCEPT ![k] =
                        << linear(Pair(z[kb], z[ke]),
                                  Pair(w[kb][1], w[ke][1]), z[k]),
                           linear(Pair(z[kb], z[ke]),
                                  Pair(w[kb][2], w[ke][2]), z[k]) >>]]
        ELSE IF kb < 0
          THEN IF ke \in 0..(nk-1)
                 THEN [ok |-> TRUE, w |-> [w EXCEPT ![k] = w[ke]]]
                 ELSE [ok |-> FALSE, w |-> w]
          ELSE [ok |-> TRUE, w |-> [w EXCEPT ![k] = w[kb]]]

\* lines 209-234: the second loop, levels k..nk-1 in order
RECURSIVE GapFill(_, _, _, _, _, _)
GapFill(nk, z, wdir, wspd, w, k) ==
  IF k > nk - 1 THEN [ok |-> TRUE, w |-> w]
  ELSE IF BothMissing(wdir, wspd, k)
    THEN With(FillLevel(nk, z, wdir, wspd, w, k),
              LAMBDA r : IF r.ok THEN GapFill(nk, z, wdir, wspd, r.w, k + 1)
                                 ELSE r)
    ELSE GapFill(nk, z, wdir, wspd, w, k + 1)

\* floor(x * 0.5144444), computed without leaving 32 bits
KtToMs(x) ==
  LET q == x \div 10000
      r == x % 10000
      f == (x * 444) \div 1000
  IN  q * 5144 + (r * 5144 + f) \div 10000

\* the whole function: what it hands to plot (line 255), or the exception
plot_sounding_data(file) ==
  LET nk == file.nk
  IN  With(GapFill(nk, file.z, file.wdir, file.wspd,
                   ConvertWinds(nk, file.wdir, file.wspd), 0), LAMBDA g :
      IF ~g.ok THEN [status |-> "IndexError"]
      ELSE [status |-> "plot",
            z  |-> file.z,
            p  |-> [k \in 0..(nk-1) |-> file.p[k] * 100],
            u  |-> [k \in 0..(nk-1) |-> KtToMs(g.w[k][1])],
            v  |-> [k \in 0..(nk-1) |-> KtToMs(g.w[k][2])],
            th |-> [k \in 0..(nk-1) |->
                      theta(file.T[k] * 100 + T00, file.p[k] * 100)],
            qv |-> [k \in 0..(nk-1) |->
                      [fn |-> "0.622*pp*w",
                       esTd |-> es(file.Td[k] * 100 + T00),
                       esT |-> es(file.T[k] * 100 + T00),
                       p |-> file.p[k] * 100]]])

---------------------------------------------------------------------------
(* plot_cm1 (skewt.py 264-315).  A dataset f has the axes dimX, dimY, dimZ *)
(* (km, here in tenths of a km), dimT and the fields th, prs, uinterp,     *)
(* vinterp, qv, each a column of levels 0..nk-1 at every grid point <<x,y>>.*)
(* qv is in g/kg (0.014 kg/kg = 14).                                       *)

\* a column read at the transposed grid point
ColumnTransposed(field, xi, yi) == field[<<yi, xi>>]

\* lines 293 and 300-304: the column of a field at grid point (xi, yi)
Column(field, xi, yi) == field[<<xi, yi>>]

\* lines 294-305: np.empty(nk+1) with the column copied to indices 1..nk;
\* index 0 is not yet set
Shifted(nk, col) ==
  [k \in 0..nk |-> IF k = 0 THEN [unset |-> TRUE] ELSE col[k - 1]]

plot_cm1(f, xi, yi) ==
  LET _z  == [k \in DOMAIN f.dimZ |-> f.dimZ[k] * 100]      \* km -> m
      nk  == Cardinality(DOMAIN Column(f.prs, xi, yi))
      th1 == Shifted(nk, Column(f.th, xi, yi))
      p1  == Shifted(nk, Column(f.prs, xi, yi))
      u1  == Shifted(nk, Column(f.uinterp, xi, yi))
      v1  == Shifted(nk, Column(f.vinterp, xi, yi))
      qv1 == Shifted(nk, Column(f.qv, xi, yi))
      z1  == Shifted(nk, _z)
  IN  [status |-> "plot",
       x  |-> f.dimX[xi], y |-> f.dimY[yi], t |-> f.dimT[0],
       p  |-> [p1 EXCEPT ![0] = 100000],
       th |-> [th1 EXCEPT ![0] = 300],
       qv |-> [qv1 EXCEPT ![0] = 14],
       u  |-> [u1 EXCEPT ![0] = u1[1]],
       v  |-> [v1 EXCEPT ![0] = v1[1]],
       z  |-> [z1 EXCEPT ![0] = 0]]

\* the datasets of the model
MaxModelLevels == 2
GridX == {0, 1}
GridY == {0, 1}
DimZ == {2, 10, 30}
ModelPressures == {100500, 99000, 90000, 80000}

\* the column at grid point g: its pressures are prs, its other fields follow
\* the level and a variant number b
ModelColumn(nk, prs, b) ==
  [th |-> [k \in 0..(nk-1) |-> 301 + 3 * k + b],
   prs |-> prs,
   uinterp |-> [k \in 0..(nk-1) |-> 300 * (k + 1) + 50 * b],
   vinterp |-> [k \in 0..(nk-1) |-> 100 * b - 200 * k],
   qv |-> [k \in 0..(nk-1) |-> 12 - 4 * k + b]]

\* a dataset whose column at grid point g is c and elsewhere o
Dataset(dimZ, g, c, o) ==
  LET at(name) == [h \in GridX \X GridY |-> IF h = g THEN c[name] ELSE o[name]]
  IN  [dimX |-> [i \in GridX |-> 2 * i], dimY |-> [j \in GridY |-> 2 * j],
       dimZ |-> dimZ, dimT |-> (0 :> 0),
       th |-> at("th"), prs |-> at("prs"), uinterp |-> at("uinterp"),
       vinterp |-> at("vinterp"), qv |-> at("qv")]

---------------------------------------------------------------------------
(* pymeteo.thermo and pymeteo.dynamics as the analysis facade uses them.   *)

\* (p / p00) ^ (Rd / cp) in thousandths, p00 = 100000 Pa, Rd / cp = 0.2854
ExnerMilli(p) ==
  CASE p = 100000 -> 1000 [] p = 85000 -> 955 [] p = 70000 -> 903
    [] p = 50000 -> 821 [] p = 30000 -> 709

\* met.T(th, p): temperature from potential temperature, level by level
met_T(th, p) == [k \in DOMAIN th |-> (th[k] * ExnerMilli(p[k])) \div 1000]

\* the origin-selection modes of met.CAPE's last argument
ParcelMode == (1 :> "surface" @@ 2 :> "most unstable" @@ 3 :> "mixed layer")

\* met.CAPE(z, p, t, q, parcel): one run of the parcel engine, as a term
CAPE(z, p, t, q, parcel) ==
  [fn |-> "CAPE", z |-> z, p |-> p, t |-> t, q |-> q, parcel |-> parcel]

Tuple4(a, b, c, d) == (0 :> a @@ 1 :> b @@ 2 :> c @@ 3 :> d)
NaN == [fn |-> "nan"]

\* dyn.storm_motion_bunkers(u, v, z) -> (right u, right v, left u, left v),
\* each a term; with the top level below 6 km there is no estimate, which is
\* a domain error raised, None returned or NaNs returned
storm_motion_bunkers(u, v, z) ==
  LET top == Cardinality(DOMAIN z) - 1
      B(i) == [fn |-> "storm_motion_bunkers", u |-> u, v |-> v, z |-> z, i |-> i]
  IN  IF z[top] >= 6000
        THEN [status |-> "return", kind |-> "tuple",
              value |-> Tuple4(B(0), B(1), B(2), B(3))]
      ELSE IF bunkers_fail = "raise"
        THEN [status |-> "raise", exc |-> "DomainError"]
      ELSE IF bunkers_fail = "None"
        THEN [status |-> "return", kind |-> "None", value |-> NaN]
      ELSE [status |-> "return", kind |-> "tuple",
            value |-> Tuple4(NaN, NaN, NaN, NaN)]

\* dyn.srh(u, v, z, zbot, ztop, cx, cy): one run of the helicity integral
srh(u, v, z, zbot, ztop, cx, cy) ==
  [fn |-> "srh", u |-> u, v |-> v, z |-> z, zbot |-> zbot, ztop |-> ztop,
   cx |-> cx, cy |-> cy]

\* dyn.shear(u, v, z, zbot, ztop): wind at ztop minus wind at zbot
shear(u, v, z, zbot, ztop) ==
  << linear(z, u, ztop) - linear(z, u, zbot),
     linear(z, v, ztop) - linear(z, v, zbot) >>

\* floor of the square root
RECURSIVE IsqrtIn(_, _, _)
IsqrtIn(n, lo, hi) ==
  IF lo >= hi THEN lo
  ELSE LET mid == (lo + hi + 1) \div 2
       IN  IF mid * mid <= n THEN IsqrtIn(n, mid, hi) ELSE IsqrtIn(n, lo, mid - 1)
Isqrt(n) == With(n, LAMBDA m : IsqrtIn(m, 0, 40000))

\* tan of 0..45 degrees in thousandths
TanMilli ==
  << 0, 17, 35, 52, 70, 87, 105, 123, 141, 158, 176, 194, 213, 231, 249, 268,
     287, 306, 325, 344, 364, 384, 404, 424, 445, 466, 488, 510, 532, 554,
     577, 601, 625, 649, 675, 700, 727, 754, 781, 810, 839, 869, 900, 933,
     966, 1000 >>

\* the angle of (x, y), x >= 0, y >= 0, in whole degrees
AngleQ1(x, y) ==
  LET atan(a, b) == Cardinality({d \in 1..45 : TanMilli[d + 1] * b <= 1000 * a})
  IN  IF x = 0 /\ y = 0 THEN 0
      ELSE IF y <= x THEN atan(y, x) ELSE 90 - atan(x, y)

\* atan2(y, x) in whole degrees, 0..359
Angle(x, y) ==
  IF x >= 0 /\ y >= 0 THEN AngleQ1(x, y)
  ELSE IF x < 0 /\ y >= 0 THEN 90 + AngleQ1(y, -x)
  ELSE IF x < 0 /\ y < 0 THEN 180 + AngleQ1(-x, -y)
  ELSE (270 + AngleQ1(-y, x)) % 360

\* dyn.uv_to_deg(u, v) -> (direction the wind blows from in degrees, speed)
uv_to_deg(u, v) ==
  With(<<u, v>>, LAMBDA w : << (270 - Angle(w[1], w[2])) % 360,
                               Isqrt(w[1] * w[1] + w[2] * w[2]) >>)

\* the pair w kept as the vector (du, dv), with no conversion
vector_of(w) == w

\* dyn.uv_to_deg(*w): the pair w unpacked into the two arguments
uv_to_deg_of(w) == uv_to_deg(w[1], w[2])

---------------------------------------------------------------------------
(* The analysis facade (skewt.py 486-528).  Each function yields what it   *)
(* returned or raised and the argument arrays as it leaves them.           *)

\* calc_sounding_stats run on the levels inside the plot's pressure bounds
calc_sounding_stats_clipped(_z, _th, _p, _qv) ==
  LET keep == {k \in DOMAIN _p : _p[k] >= ptop}
      n    == Cardinality(keep)
      cut(a) == [k \in 0..(n - 1) |-> a[k]]
      Tk   == met_T(cut(_th), cut(_p))
  IN  [status |-> "return",
       value |-> << CAPE(cut(_z), cut(_p), Tk, cut(_qv), 1),
                    CAPE(cut(_z), cut(_p), Tk, cut(_qv), 2),
                    CAPE(cut(_z), cut(_p), Tk, cut(_qv), 3) >>,
       arrays |-> [z |-> _z, th |-> _th, p |-> _p, qv |-> _qv]]

\* calc_sounding_stats with the most unstable parcel run in place of the
\* mixed layer parcel
calc_sounding_stats_mu_twice(_z, _th, _p, _qv) ==
  LET Tk == met_T(_th, _p)
  IN  [status |-> "return",
       value |-> << CAPE(_z, _p, Tk, _qv, 1), CAPE(_z, _p, Tk, _qv, 2),
                    CAPE(_z, _p, Tk, _qv, 2) >>,
       arrays |-> [z |-> _z, th |-> _th, p |-> _p, qv |-> _qv]]

\* lines 486-492
calc_sounding_stats(_z, _th, _p, _qv) ==
  LET Tk    == met_T(_th, _p)
      pcl   == CAPE(_z, _p, Tk, _qv, 1)
      mupcl == CAPE(_z, _p, Tk, _qv, 2)
      mlpcl == CAPE(_z, _p, Tk, _qv, 3)
  IN  [status |-> "return",
       value |-> << pcl, mupcl, mlpcl >>,
       arrays |-> [z |-> _z, th |-> _th, p |-> _p, qv |-> _qv]]

\* the bundle with the helicity relative to the left mover (ucb[2], ucb[3])
HodographBundleLeftMover(_z, _u, _v, ucb) ==
  [bunkers |-> ucb,
   srh01 |-> srh(_u, _v, _z, 0, 1000, ucb[2], ucb[3]),
   srh03 |-> srh(_u, _v, _z, 0, 3000, ucb[2], ucb[3]),
   erh01 |-> srh(_u, _v, _z, 0, 1000, 0, 0),
   erh03 |-> srh(_u, _v, _z, 0, 3000, 0, 0),
   s01 |-> uv_to_deg_of(shear(_u, _v, _z, 0, 1000)),
   s03 |-> uv_to_deg_of(shear(_u, _v, _z, 0, 3000)),
   s06 |-> uv_to_deg_of(shear(_u, _v, _z, 0, 6000)),
   s12 |-> uv_to_deg_of(shear(_u, _v, _z, 1000, 2000)),
   s23 |-> uv_to_deg_of(shear(_u, _v, _z, 2000, 3000)),
   s34 |-> uv_to_deg_of(shear(_u, _v, _z, 3000, 4000)),
   s45 |-> uv_to_deg_of(shear(_u, _v, _z, 4000, 5000)),
   s56 |-> uv_to_deg_of(shear(_u, _v, _z, 5000, 6000))]

\* lines 498-526: the bundle built from the storm motion ucb
HodographBundle(_z, _u, _v, ucb) ==
  [bunkers |-> ucb,
   srh01 |-> srh(_u, _v, _z, 0, 1000, ucb[0], ucb[1]),
   srh03 |-> srh(_u, _v, _z, 0, 3000, ucb[0], ucb[1]),
   erh01 |-> srh(_u, _v, _z, 0, 1000, 0, 0),
   erh03 |-> srh(_u, _v, _z, 0, 3000, 0, 0),
   s01 |-> uv_to_deg_of(shear(_u, _v, _z, 0, 1000)),
   s03 |-> uv_to_deg_of(shear(_u, _v, _z, 0, 3000)),
   s06 |-> uv_to_deg_of(shear(_u, _v, _z, 0, 6000)),
   s12 |-> uv_to_deg_of(shear(_u, _v, _z, 1000, 2000)),
   s23 |-> uv_to_deg_of(shear(_u, _v, _z, 2000, 3000)),
   s34 |-> uv_to_deg_of(shear(_u, _v, _z, 3000, 4000)),
   s45 |-> uv_to_deg_of(shear(_u, _v, _z, 4000, 5000)),
   s56 |-> uv_to_deg_of(shear(_u, _v, _z, 5000, 6000))]

\* lines 494-528; ucb[0] of None raises TypeError at line 499
calc_hodograph_stats(_z, _u, _v) ==
  LET ucb == storm_motion_bunkers(_u, _v, _z)
      arrays == [z |-> _z, u |-> _u, v |-> _v]
  IN  IF ucb.status = "raise"
        THEN [status |-> "raise", exc |-> ucb.exc, arrays |-> arrays]
      ELSE IF ucb.kind = "None"
        THEN [status |-> "raise", exc |-> "TypeError", arrays |-> arrays]
      ELSE [status |-> "return",
            value |-> HodographBundle(_z, _u, _v, ucb.value),
            arrays |-> arrays]

---------------------------------------------------------------------------
(* plot_sounding (skewt.py 399-454): what it draws on the axes.            *)
(* Temperatures on the axes are in tenths of a degree.                     *)

\* a parcel level (LCL, LFC, EL, tops) that the engine found, or did not
Defined(prs) == [defined |-> TRUE, prs |-> prs]
Undefined == [defined |-> FALSE]

\* lines 653-654: label(x, y, s, c, r, axes) puts the text s at (x, y*100)
label(x, y, s, c, r) ==
  [x |-> x, y |-> y * 100, s |-> s, weight |-> "bold", halign |-> "center",
   fontsize |-> 5 * fontscalefactor, color |-> c, rotation |-> r]

\* lines 656-657
label_h(x, y, s, c, r) ==
  [x |-> x, y |-> y, s |-> s, weight |-> "normal", halign |-> "center",
   fontsize |-> 7 * fontscalefactor, color |-> c, rotation |-> r]

\* lines 659-660
label_h2(x, y, s, c, r) ==
  [x |-> x, y |-> y, s |-> s, weight |-> "bold", halign |-> "center",
   fontsize |-> 10 * fontscalefactor, color |-> c, rotation |-> r]

\* lines 662-663: label_m(x, y, s, axes) puts the text s at (x, y)
label_m(x, y, s) ==
  [x |-> x, y |-> y, s |-> s, halign |-> "right",
   fontsize |-> 4 * fontscalefactor]

\* line 105
plevs_std == << 100000, 85000, 70000, 50000, 40000, 30000, 25000, 20000, 15000 >>

\* pymeteo.interp.interp_height(z, p, plvl): the height of pressure plvl
interp_height(z, p, plvl) == linear(p, z, plvl)

\* pcl is what met.CAPE(z, p, T + T00, qv, 1) returned at line 424
plot_sounding(z, th, p, qv, u, v, pcl) ==
  LET n == Cardinality(DOMAIN z)
      even == {i \in 0..(n - 1) : i % 2 = 0 /\ p[i] > 10000}
      barbs(i) == [x |-> 10 * (Tmin + 4), p |-> p[i], u |-> u[i], v |-> v[i]]
  IN  [status |-> "return",
       lines |-> << "T", "Td", "T_parcel", "Twb", "T_venv", "T_vparcel" >>,
       texts |-> << label_m(10 * Tmax - 5, pcl.lfcprs, "--LFC"),
                    label_m(10 * Tmax - 5, pcl.lclprs, "--LCL"),
                    label_m(10 * Tmax - 5, pcl.elprs, "--EL"),
                    label_m(10 * Tmax - 5, pcl.ptops, "--TOPS") >>
                 \o [i \in 1..9 |->
                       label_m(10 * Tmin - 5, plevs_std[i],
                               ToString(interp_height(z, p, plevs_std[i])))],
       barbs |-> [i \in even |-> barbs(i)]]

\* the answers of the parcel engine for the surface parcel: no LFC without
\* an LCL, no EL and no tops without an LFC
ParcelLevels ==
  { [lclprs |-> Undefined, lfcprs |-> Undefined, elprs |-> Undefined,
     ptops |-> Undefined],
    [lclprs |-> Defined(85000), lfcprs |-> Undefined, elprs |-> Undefined,
     ptops |-> Undefined],
    [lclprs |-> Defined(85000), lfcprs |-> Defined(70000), elprs |-> Undefined,
     ptops |-> Defined(30000)],
    [lclprs |-> Defined(85000), lfcprs |-> Defined(70000),
     elprs |-> Defined(40000), ptops |-> Defined(30000)] }

---------------------------------------------------------------------------
(* The background of the skew-T axes and the hodograph trace.              *)

\* np.arange(start, stop, step): start, start + step, ... short of stop
arange(start, stop, step) ==
  LET n == IF step > 0
             THEN IF stop <= start THEN 0 ELSE (stop - start + step - 1) \div step
           ELSE IF start <= stop THEN 0
           ELSE (start - stop - step - 1) \div (-step)
  IN  [i \in 1..n |-> start + (i - 1) * step]

Reverse(q) == [i \in 1..Len(q) |-> q[Len(q) + 1 - i]]

\* line 88
ptickbot == 100000

\* lines 727-740; the x of a label is in thousandths of a degree
draw_isobars ==
  LET thin  == arange(pbot, ptop - 1, -(2 * dp))
      thick == arange(ptickbot, ptop - 1, -(2 * dp))
      marks == arange(1000, 100, -50)
      line(i, w) == [x |-> <<Tmin, Tmax>>, y |-> <<i, i>>, color |-> "grey",
                     linewidth |-> w]
  IN  [status |-> "return",
       lines |-> [k \in 1..Len(thin) |-> line(thin[k], 3)]
                   \o [k \in 1..Len(thick) |-> line(thick[k], 5)],
       texts |-> [k \in 1..Len(marks) |->
                    label(-10000 - (1000 - marks[k]) * 25, marks[k],
                          ToString(marks[k]), "black", 0)]]

\* lines 99-104
pb_plot == 105000
pt_plot == 10000
pt_plot2 == 20000
dp_plot == 1000
plevs_plot == arange(pb_plot, pt_plot - 1, -dp_plot)
plevs_plot2 == arange(pb_plot, pt_plot2 - 1, -dp_plot)

\* line 709: skew(p) = skew_angle * log(p00 / p), as a term
skew(p) == [fn |-> "skew", skew_angle |-> skew_angle, p |-> p]

\* line 780: the temperatures at 1000 mb, in tenths of a degree C
Temps == arange(-150, 101, 50) \o arange(125, 451, 25)

\* lines 787, 792, 796: a point of the adiabat of T0, the temperature being
\* met.dTdp_moist integrated from 1000 mb to p in steps of dp_plot
AdiabatPoint(T0, leg, p) ==
  [T |-> [fn |-> "dTdp_moist", T0 |-> T0, leg |-> leg, to |-> p],
   skew |-> IF leg = "start" THEN [fn |-> "none"] ELSE skew(p)]

\* lines 777-779
ps_blo == Reverse(SelectSeq(plevs_plot, LAMBDA p : p > 100000))
ps == SelectSeq(plevs_plot2, LAMBDA p : p < 100000)

\* lines 783-796: moist_adiabat when the k-th level of ps has been appended
MoistAdiabat(T0, k) ==
  Reverse([i \in 1..Len(ps_blo) |-> AdiabatPoint(T0, "down", ps_blo[i])])
    \o << AdiabatPoint(T0, "start", 100000) >>
    \o [i \in 1..k |-> AdiabatPoint(T0, "up", ps[i])]

\* lines 781-801 from the k-th level of the ti-th temperature on: calls holds
\* the calls of axes.semilogy so far, which raises ValueError when the two
\* arrays differ in length
RECURSIVE DrawAdiabats(_, _, _, _)
DrawAdiabats(ti, k, calls, texts) ==
  IF ti > Len(Temps) THEN [status |-> "return", calls |-> calls, texts |-> texts]
  ELSE IF k > Len(ps) THEN DrawAdiabats(ti + 1, 1, calls, texts)
  ELSE LET T0 == Temps[ti]
           x  == MoistAdiabat(T0, k)
           t2 == IF ps[k] = 22000 /\ T0 >= 0 /\ T0 <= 300
                   THEN Append(texts, label(x[Len(x)], ps[k] \div 100,
                                            ToString(T0 \div 10), "green", 0))
                 ELSE texts
           c2 == Append(calls, [T0 |-> T0, x |-> x, y |-> plevs_plot2])
       IN  IF Len(x) # Len(plevs_plot2)
             THEN [status |-> "raise", exc |-> "ValueError", calls |-> c2,
                   texts |-> t2]
           ELSE DrawAdiabats(ti, k + 1, c2, t2)

\* lines 766-801
draw_moist_adiabat == DrawAdiabats(1, 1, << >>, << >>)

\* lines 468-470: the first index with z above 12000; reading z[n] raises
RECURSIVE ScanTo12km(_, _)
ScanTo12km(z, z6km) ==
  IF z6km >= Cardinality(DOMAIN z) THEN [status |-> "raise", exc |-> "IndexError"]
  ELSE IF z[z6km] <= 12000 THEN ScanTo12km(z, z6km + 1)
  ELSE [status |-> "return", value |-> z6km]

\* lines 456-483; winds in hundredths of m/s
plot_hodograph(z, u, v) ==
  LET scan == ScanTo12km(z, 0)
      zlvls == arange(0, 7000, 1000)
      ulvl(i) == linear(z, u, zlvls[i])
      vlvl(i) == linear(z, v, zlvls[i])
      ucb == storm_motion_bunkers(u, v, z)
      drawn == [trace |-> [u |-> [k \in 0..(scan.value - 1) |-> u[k]],
                           v |-> [k \in 0..(scan.value - 1) |-> v[k]]],
                texts |-> [i \in 1..Len(zlvls) |->
                             label_h2(ulvl(i) + 100, vlvl(i) - 100,
                                      ToString(zlvls[i] \div 1000) \o ".0",
                                      "black", 0)],
                dots |-> [i \in 1..Len(zlvls) |-> <<ulvl(i), vlvl(i)>>]]
  IN  IF scan.status = "raise" THEN scan
      ELSE IF ucb.status = "raise"
        THEN [status |-> "raise", exc |-> ucb.exc] @@ drawn
      ELSE IF ucb.kind = "None"
        THEN [status |-> "raise", exc |-> "TypeError"] @@ drawn
      ELSE [status |-> "return",
            movers |-> << <<ucb.value[0], ucb.value[1]>>,
                          <<ucb.value[2], ucb.value[3]>> >>] @@ drawn

\* lines 650-651: the assignment binds a name local to the function, so the
\* module's fontscalefactor after the call is the one before it
set_fontscalefactor(newfactor) ==
  LET local == newfactor
  IN  [status |-> "return", value |-> "None", fontscalefactor |-> fontscalefactor]

\* the profiles of the model
MaxProfileLevels == 2
ProfileHeights == {0, 3000, 8000}
ProfilePressure(h) ==
  CASE h = 0 -> 100000 [] h = 3000 -> 70000 [] h = 8000 -> 30000
ProfileZ(n) == {a \in Arrays(n, ProfileHeights) : StrictlyIncreasing(a)}

\* the sounding files of the model: nk rows of p (mb), z (m), T (C), Td (C),
\* wdir (deg), wspd; heights increase, pressure and temperature follow height
FilePressure(h) == CASE h = 0 -> 1000 [] h = 1000 -> 900 [] h = 3000 -> 700
                     [] h = 6000 -> 470
SoundingFile(nk, z, tsfc, wdir, wspd) ==
  [nk |-> nk, z |-> z,
   p |-> [k \in 0..(nk-1) |-> FilePressure(z[k])],
   T |-> [k \in 0..(nk-1) |-> tsfc - (6 * z[k]) \div 1000],
   Td |-> [k \in 0..(nk-1) |-> tsfc - 4 - (6 * z[k]) \div 1000],
   wdir |-> wdir, wspd |-> wspd]

NoCall == [none |-> TRUE]

Init ==
  /\ skew_angle = 375 /\ Tmin = -40 /\ Tmax = 40
  /\ pbot = 105000 /\ ptop = 10000 /\ dp = 5000
  /\ call = "idle" /\ args = NoCall /\ after = NoCall /\ result = NoCall
  /\ bunkers_fail \in {"raise", "None", "nan"}
  /\ fontscalefactor = 1

PlotSoundingData ==
  /\ call = "idle"
  /\ \E nk \in 1..MaxLevels, tsfc \in {20, 30} :
     \E z \in {a \in Arrays(nk, Heights) : StrictlyIncreasing(a)},
        wdir \in Arrays(nk, Dirs), wspd \in Arrays(nk, Spds) :
       \E file \in {SoundingFile(nk, z, tsfc, wdir, wspd)} :
           /\ call' = "plot_sounding_data"
           /\ args' = file
           /\ after' = file
           /\ result' = plot_sounding_data(file)
  /\ UNCHANGED <<tunables, bunkers_fail, fontscalefactor>>

PlotCm1 ==
  /\ call = "idle"
  /\ \E nk \in 1..MaxModelLevels, xi \in GridX, yi \in GridY, b \in {0, 1} :
     \E dimZ \in {a \in Arrays(nk, DimZ) : StrictlyIncreasing(a)},
        prs \in {a \in Arrays(nk, ModelPressures) : StrictlyDecreasing(a)},
        prso \in {a \in Arrays(nk, ModelPressures) : StrictlyDecreasing(a)} :
       \E f \in {Dataset(dimZ, <<xi, yi>>, ModelColumn(nk, prs, b),
                           ModelColumn(nk, prso, 1 - b))} :
           /\ call' = "plot_cm1"
           /\ args' = [f |-> f, xi |-> xi, yi |-> yi]
           /\ after' = args'
           /\ result' = plot_cm1(f, xi, yi)
  /\ UNCHANGED <<tunables, bunkers_fail, fontscalefactor>>

Return ==
  /\ call # "idle"
  /\ call' = "idle" /\ args' = NoCall /\ after' = NoCall /\ result' = NoCall
  /\ UNCHANGED <<tunables, bunkers_fail, fontscalefactor>>

CalcSoundingStats ==
  /\ call = "idle"
  /\ \E n \in 2..MaxProfileLevels :
     \E z \in ProfileZ(n), th \in Arrays(n, {300, 310}), qv \in Arrays(n, {4, 14}) :
     \E p \in {[k \in 0..(n-1) |-> ProfilePressure(z[k])]} :
     \E r \in {calc_sounding_stats(z, th, p, qv)} :
           /\ call' = "calc_sounding_stats"
           /\ args' = [z |-> z, th |-> th, p |-> p, qv |-> qv]
           /\ after' = r.arrays
           /\ result' = [x \in DOMAIN r \ {"arrays"} |-> r[x]]
  /\ UNCHANGED <<tunables, bunkers_fail, fontscalefactor>>

CalcHodographStats ==
  /\ call = "idle"
  /\ \E n \in 2..MaxProfileLevels :
     \E z \in ProfileZ(n), u \in Arrays(n, {0, 1000}), v \in Arrays(n, {-500, 500}) :
     \E r \in {calc_hodograph_stats(z, u, v)} :
           /\ call' = "calc_hodograph_stats"
           /\ args' = [z |-> z, u |-> u, v |-> v]
           /\ after' = r.arrays
           /\ result' = [x \in DOMAIN r \ {"arrays"} |-> r[x]]
  /\ UNCHANGED <<tunables, bunkers_fail, fontscalefactor>>

\* the caller calls calc_sounding_stats again with the same arrays
CalcSoundingStatsAgain ==
  /\ call = "calc_sounding_stats"
  /\ \E r \in {calc_sounding_stats(after.z, after.th, after.p, after.qv)} :
           /\ args' = after
           /\ after' = r.arrays
           /\ result' = [x \in DOMAIN r \ {"arrays"} |-> r[x]]
  /\ UNCHANGED <<call, tunables, bunkers_fail, fontscalefactor>>

\* the caller calls calc_hodograph_stats again with the same arrays
CalcHodographStatsAgain ==
  /\ call = "calc_hodograph_stats"
  /\ \E r \in {calc_hodograph_stats(after.z, after.u, after.v)} :
           /\ args' = after
           /\ after' = r.arrays
           /\ result' = [x \in DOMAIN r \ {"arrays"} |-> r[x]]
  /\ UNCHANGED <<call, tunables, bunkers_fail, fontscalefactor>>

PlotSounding ==
  /\ call = "idle"
  /\ \E n \in 2..MaxProfileLevels, qs \in {4, 14}, lev \in ParcelLevels :
     \E z \in ProfileZ(n), th \in Arrays(n, {300, 310}), u \in Arrays(n, {0, 1000}) :
     \E a \in {[z |-> z, th |-> th, u |-> u,
                 p |-> [k \in 0..(n-1) |-> ProfilePressure(z[k])],
                 qv |-> [k \in 0..(n-1) |-> qs - k],
                 v |-> [k \in 0..(n-1) |-> 500]]} :
     \E pcl \in {[call |-> CAPE(a.z, a.p, met_T(a.th, a.p), a.qv, 1),
                   lclprs |-> lev.lclprs, lfcprs |-> lev.lfcprs,
                   elprs |-> lev.elprs, ptops |-> lev.ptops]} :
           /\ call' = "plot_sounding"
           /\ args' = [a EXCEPT !.z = a.z] @@ [pcl |-> pcl]
           /\ after' = a
           /\ result' = plot_sounding(a.z, a.th, a.p, a.qv, a.u, a.v, pcl)
  /\ UNCHANGED <<tunables, bunkers_fail, fontscalefactor>>

\* an assignment to one of the module's tunables, e.g. skewt.dp = 2500.
SetTunable ==
  /\ \/ skew_angle' \in {375, 450} /\ UNCHANGED <<Tmin, Tmax, pbot, ptop, dp>>
     \/ Tmin' \in {-40, -30} /\ UNCHANGED <<skew_angle, Tmax, pbot, ptop, dp>>
     \/ Tmax' \in {40, 50} /\ UNCHANGED <<skew_angle, Tmin, pbot, ptop, dp>>
     \/ pbot' \in {105000, 100000} /\ UNCHANGED <<skew_angle, Tmin, Tmax, ptop, dp>>
     \/ ptop' \in {10000, 50000} /\ UNCHANGED <<skew_angle, Tmin, Tmax, pbot, dp>>
     \/ dp' \in {5000, 2500} /\ UNCHANGED <<skew_angle, Tmin, Tmax, pbot, ptop>>
  /\ UNCHANGED <<call, args, after, result, bunkers_fail, fontscalefactor>>

DrawIsobars ==
  /\ call = "idle"
  /\ call' = "draw_isobars"
  /\ args' = [axes |-> "axes"]
  /\ after' = args'
  /\ result' = draw_isobars
  /\ UNCHANGED <<tunables, bunkers_fail, fontscalefactor>>

DrawMoistAdiabat ==
  /\ call = "idle"
  /\ call' = "draw_moist_adiabat"
  /\ args' = [axes |-> "axes"]
  /\ after' = args'
  /\ result' = draw_moist_adiabat
  /\ UNCHANGED <<tunables, bunkers_fail, fontscalefactor>>

\* the profiles handed to plot_hodograph
MaxHodoLevels == 3
HodoHeights == {0, 6000, 12000, 13000}

PlotHodograph ==
  /\ call = "idle"
  /\ \E n \in 2..MaxHodoLevels :
     \E z \in {a \in Arrays(n, HodoHeights) : StrictlyIncreasing(a)},
        u \in Arrays(n, {0, 1000}), v \in Arrays(n, {-500, 500}) :
     \E r \in {plot_hodograph(z, u, v)} :
           /\ call' = "plot_hodograph"
           /\ args' = [z |-> z, u |-> u, v |-> v]
           /\ after' = args'
           /\ result' = r
  /\ UNCHANGED <<tunables, bunkers_fail, fontscalefactor>>

SetFontScaleFactor ==
  /\ call = "idle"
  /\ \E newfactor \in {1, 2, 3} :
     \E r \in {set_fontscalefactor(newfactor)} :
           /\ call' = "set_fontscalefactor"
           /\ args' = [newfactor |-> newfactor]
           /\ after' = args'
           /\ result' = [status |-> r.status, value |-> r.value]
           /\ fontscalefactor' = r.fontscalefactor
  /\ UNCHANGED <<tunables, bunkers_fail>>

\* a call of one of the four label functions (lines 653-663)
Label ==
  /\ call = "idle"
  /\ \E fn \in {"label", "label_h", "label_h2", "label_m"},
        x \in {-10, 20}, y \in {850, 500}, s \in {"10", "--LCL"},
        c \in {"black", "red"}, r \in {0, 45} :
           /\ call' = fn
           /\ args' = IF fn = "label_m" THEN [x |-> x, y |-> y, s |-> s]
                      ELSE [x |-> x, y |-> y, s |-> s, c |-> c, r |-> r]
           /\ after' = args'
           /\ result' = [status |-> "return",
                         text |-> CASE fn = "label" -> label(x, y, s, c, r)
                                    [] fn = "label_h" -> label_h(x, y, s, c, r)
                                    [] fn = "label_h2" -> label_h2(x, y, s, c, r)
                                    [] fn = "label_m" -> label_m(x, y, s)]
  /\ UNCHANGED <<tunables, bunkers_fail, fontscalefactor>>

\* an assignment to the module's name from outside, skewt.fontscalefactor = 2
AssignFontScale ==
  /\ call = "idle"
  /\ fontscalefactor' \in {1, 2}
  /\ UNCHANGED <<tunables, call, args, after, result, bunkers_fail>>

\* the readers; they never reach the storm-motion engine
NextIngest == PlotSoundingData \/ PlotCm1 \/ Return
InitIngest == Init /\ bunkers_fail = "raise"
SpecIngest == InitIngest /\ [][NextIngest]_vars

\* the analysis facade with the tunables as the module sets them at import
NextFacade ==
  \/ CalcSoundingStats \/ CalcHodographStats
  \/ CalcSoundingStatsAgain \/ CalcHodographStatsAgain
  \/ Return
SpecFacade == Init /\ [][NextFacade]_vars

\* the analysis facade with the tunables assigned between the calls
NextTunables == NextFacade \/ SetTunable
SpecTunables == Init /\ [][NextTunables]_vars

\* the drawing of a sounding
NextPlot == PlotSounding \/ Return
SpecPlot == InitIngest /\ [][NextPlot]_vars

\* the background of the axes under the tunables
SetTunableIdle == call = "idle" /\ SetTunable
NextAxes == DrawIsobars \/ DrawMoistAdiabat \/ SetTunableIdle \/ Return
SpecAxes == InitIngest /\ [][NextAxes]_vars

\* the hodograph trace
NextHodo == PlotHodograph \/ Return
SpecHodo == Init /\ [][NextHodo]_vars

\* the labels and the font scale
NextLabels == SetFontScaleFactor \/ Label \/ AssignFontScale \/ Return
SpecLabels == InitIngest /\ [][NextLabels]_vars

Next ==
  \/ PlotSoundingData \/ PlotCm1
  \/ CalcSoundingStats \/ CalcHodographStats
  \/ CalcSoundingStatsAgain \/ CalcHodographStatsAgain
  \/ PlotSounding \/ PlotHodograph
  \/ DrawIsobars \/ DrawMoistAdiabat
  \/ SetFontScaleFactor \/ Label \/ AssignFontScale
  \/ SetTunable
  \/ Return
Spec == Init /\ [][Next]_vars

---------------------------------------------------------------------------
(* Gap filling of the sounding-file winds.                                 *)

\* the levels of a file whose wind is not missing (direction and speed both
\* -9999), and those with neither of the two missing
ValidLevels(file) ==
  {j \in 0..(file.nk-1) : ~(file.wdir[j] = MISSING /\ file.wspd[j] = MISSING)}
FullyValidLevels(file) ==
  {j \in 0..(file.nk-1) : file.wdir[j] # MISSING /\ file.wspd[j] # MISSING}

OwnWind(file, j) == wind_deg_to_uv(file.wdir[j], file.wspd[j])

\* the wind level k is to get when V are the levels that count as valid
FilledWind(file, V, k) ==
  LET below == {j \in V : j < k}
      above == {j \in V : j > k}
  IN  IF k \in V THEN OwnWind(file, k)
      ELSE IF below # {} /\ above # {}
        THEN LET kb == Max(below)
                 ke == Min(above)
                 zz == Pair(file.z[kb], file.z[ke])
             IN  << linear(zz, Pair(OwnWind(file, kb)[1], OwnWind(file, ke)[1]),
                           file.z[k]),
                    linear(zz, Pair(OwnWind(file, kb)[2], OwnWind(file, ke)[2]),
                           file.z[k]) >>
      ELSE IF below = {} THEN OwnWind(file, Min(above))
      ELSE OwnWind(file, Max(below))

HandedWinds(file, V) ==
  /\ result.status = "plot"
  /\ \A k \in 0..(file.nk-1) :
       /\ result.u[k] = KtToMs(FilledWind(file, V, k)[1])
       /\ result.v[k] = KtToMs(FilledWind(file, V, k)[2])

\* C1: in plot_sounding_data, for a file with increasing heights and at least
\* one level with a valid wind, every level whose direction and speed are both
\* -9999 is handed to plot with (a) the wind interpolated linearly at its
\* height between the nearest valid level below and the nearest valid level
\* above, from those two levels' own samples, (b) the wind of the first valid
\* level when none is below, (c) the wind of the last valid level when none is
\* above; a valid level keeps the wind converted from its own direction and
\* speed.  (Lines 236-239 then scale every level alike by 0.5144444.)
C1_GapFill ==
  (call = "plot_sounding_data" /\ ValidLevels(args) # {})
    => HandedWinds(args, ValidLevels(args))

\* two missing levels in a row between two valid levels with different winds
C1_Witness ==
  /\ call = "plot_sounding_data" /\ args.nk = 4
  /\ ValidLevels(args) = {0, 3}
  /\ result.status = "plot"
  /\ result.u[0] # result.u[3]
  /\ result.u[1] # result.u[2]

\* C2: for a file with at least one valid wind level, a level whose direction
\* or whose speed is -9999 (either one) is treated as missing and gap-filled,
\* so every wind handed to plot is derived from valid samples only.
C2_NoMissingReachesPlot ==
  (call = "plot_sounding_data" /\ FullyValidLevels(args) # {})
    => HandedWinds(args, FullyValidLevels(args))

---------------------------------------------------------------------------
(* The surface level plot_cm1 synthesizes.                                 *)

ModelLevels(a) == Cardinality(DOMAIN a.f.prs[<<a.xi, a.yi>>])

\* C3: whenever the column plot_cm1 reads has strictly increasing heights and
\* strictly decreasing pressures, the six arrays handed to plot have the same
\* length nk+1, z strictly increasing and p strictly decreasing from index 0.
C3_ProfileAfterSurface ==
  (/\ call = "plot_cm1"
   /\ StrictlyIncreasing(args.f.dimZ)
   /\ StrictlyDecreasing(args.f.prs[<<args.xi, args.yi>>]))
    => /\ \A name \in {"z", "p", "th", "qv", "u", "v"} :
            DOMAIN result[name] = 0..ModelLevels(args)
       /\ StrictlyIncreasing(result.z)
       /\ StrictlyDecreasing(result.p)

\* C4: the profile plot_cm1 hands to plot has at index 0 p = 100000 Pa,
\* th = 300 K, qv = 0.014 kg/kg, z = 0 m and the wind of the first model
\* level; indices 1..nk hold the column of grid point (xi, yi) in its order,
\* the heights converted from km to m.
C4_SurfaceLevel ==
  call = "plot_cm1" =>
    LET nk == ModelLevels(args)
        g  == <<args.xi, args.yi>>
    IN  /\ result.p[0] = 100000 /\ result.th[0] = 300 /\ result.qv[0] = 14
        /\ result.z[0] = 0
        /\ result.u[0] = args.f.uinterp[g][0]
        /\ result.v[0] = args.f.vinterp[g][0]
        /\ \A k \in 1..nk :
             /\ result.th[k] = args.f.th[g][k - 1]
             /\ result.p[k] = args.f.prs[g][k - 1]
             /\ result.u[k] = args.f.uinterp[g][k - 1]
             /\ result.v[k] = args.f.vinterp[g][k - 1]
             /\ result.qv[k] = args.f.qv[g][k - 1]
             /\ 10 * result.z[k] = 1000 * args.f.dimZ[k - 1]

\* a two-level column read at a grid point off the diagonal
C4_Witness ==
  /\ call = "plot_cm1" /\ args.xi # args.yi /\ ModelLevels(args) = 2
  /\ args.f.th[<<args.xi, args.yi>>] # args.f.th[<<args.yi, args.xi>>]
  /\ result.u[2] # result.u[1]

---------------------------------------------------------------------------
(* The analysis facade.                                                    *)

\* C5: calc_sounding_stats(z, th, p, qv) returns exactly three parcel results,
\* the i-th being the run of the parcel engine with origin-selection mode i
\* (1 surface, 2 most unstable, 3 mixed layer), so each mode is run once; all
\* three runs get the z, p and qv of the call and the one temperature profile
\* met.T(th, p).
C5_ThreeParcels ==
  call = "calc_sounding_stats" =>
    /\ result.status = "return"
    /\ DOMAIN result.value = 1..3
    /\ << ParcelMode[result.value[1].parcel], ParcelMode[result.value[2].parcel],
          ParcelMode[result.value[3].parcel] >>
         = << "surface", "most unstable", "mixed layer" >>
    /\ \A i \in 1..3 :
         /\ result.value[i].fn = "CAPE"
         /\ result.value[i].z = args.z
         /\ result.value[i].p = args.p
         /\ result.value[i].q = args.qv
         /\ result.value[i].t = met_T(args.th, args.p)

\* a profile whose temperature differs from its potential temperature and
\* whose levels differ in th and qv
C5_Witness ==
  /\ call = "calc_sounding_stats"
  /\ result.status = "return"
  /\ result.value[1].t # args.th
  /\ args.th[0] # args.th[1]
  /\ args.qv[0] # args.qv[1]

\* the layers of the shear keys and of the helicity keys, bottom and top in m
ShearLayers ==
  [s01 |-> <<0, 1000>>, s03 |-> <<0, 3000>>, s06 |-> <<0, 6000>>,
   s12 |-> <<1000, 2000>>, s23 |-> <<2000, 3000>>, s34 |-> <<3000, 4000>>,
   s45 |-> <<4000, 5000>>, s56 |-> <<5000, 6000>>]
HelicityLayers ==
  [srh01 |-> <<0, 1000>>, srh03 |-> <<0, 3000>>,
   erh01 |-> <<0, 1000>>, erh03 |-> <<0, 3000>>]

\* C6: a bundle calc_hodograph_stats(z, u, v) returns has exactly the 13 keys
\* bunkers, srh01, srh03, erh01, erh03, s01, s03, s06, s12, s23, s34, s45, s56;
\* bunkers is the storm-motion estimate of (u, v, z); srh01 and srh03 are the
\* helicity over 0-1000 m and 0-3000 m relative to the right mover (the first
\* two components of the estimate), erh01 and erh03 the helicity over the same
\* layers relative to (0, 0); each shear key is computed over its own layer,
\* and the bottom is below the top in every call.
C6_Bundle ==
  (call = "calc_hodograph_stats" /\ result.status = "return") =>
    LET b == result.value
        est == storm_motion_bunkers(args.u, args.v, args.z).value
    IN  /\ DOMAIN b = {"bunkers"} \cup DOMAIN HelicityLayers \cup DOMAIN ShearLayers
        /\ Cardinality(DOMAIN b) = 13
        /\ b.bunkers = est
        /\ \A key \in DOMAIN HelicityLayers :
             /\ b[key].fn = "srh"
             /\ <<b[key].u, b[key].v, b[key].z>> = <<args.u, args.v, args.z>>
             /\ <<b[key].zbot, b[key].ztop>> = HelicityLayers[key]
             /\ b[key].zbot < b[key].ztop
        /\ \A key \in {"srh01", "srh03"} :
             b[key].cx = est[0] /\ b[key].cy = est[1]
        /\ \A key \in {"erh01", "erh03"} :
             b[key].cx = 0 /\ b[key].cy = 0
        /\ \A key \in DOMAIN ShearLayers :
             /\ ShearLayers[key][1] < ShearLayers[key][2]
             /\ b[key] = uv_to_deg_of(shear(args.u, args.v, args.z,
                                            ShearLayers[key][1], ShearLayers[key][2]))

\* a profile reaching 8 km whose shear differs between layers
C6_Witness ==
  /\ call = "calc_hodograph_stats" /\ result.status = "return"
  /\ args.z[Cardinality(DOMAIN args.z) - 1] = 8000
  /\ result.value.bunkers[0].fn = "storm_motion_bunkers"
  /\ result.value.s01 # result.value.s06
  /\ result.value.s56 # result.value.s06

\* the shear vector (du, dv) of the layer of a shear key
LayerShear(a, key) ==
  shear(a.u, a.v, a.z, ShearLayers[key][1], ShearLayers[key][2])

\* C7 as the spec states it: every bulk-shear entry of a returned bundle is
\* the shear vector (du, dv) of its layer exactly as the layer-shear function
\* returns it, for all eight layers.
C7_ShearIsVector ==
  (call = "calc_hodograph_stats" /\ result.status = "return") =>
    \A key \in DOMAIN ShearLayers : result.value[key] = LayerShear(args, key)

\* C7 as the code has it: every bulk-shear entry of a returned bundle is the
\* pair (direction in degrees, speed) that uv_to_deg makes of the shear vector
\* (du, dv) of its layer, for all eight layers: the direction lies in 0..359
\* and the speed is the length of (du, dv), rounded down.
C7_ShearIsDirectionSpeed ==
  (call = "calc_hodograph_stats" /\ result.status = "return") =>
    \A key \in DOMAIN ShearLayers :
      LET d == LayerShear(args, key)
          e == result.value[key]
          len2 == d[1] * d[1] + d[2] * d[2]
      IN  /\ e = uv_to_deg(d[1], d[2])
          /\ e[1] \in 0..359
          /\ e[2] * e[2] <= len2 /\ len2 < (e[2] + 1) * (e[2] + 1)

\* a returned bundle whose 0-6 km shear is not zero and whose entry differs
\* from the shear vector in both places
C7_Witness ==
  /\ call = "calc_hodograph_stats" /\ result.status = "return"
  /\ LayerShear(args, "s06")[1] # 0 /\ LayerShear(args, "s06")[2] # 0
  /\ result.value.s06[1] # LayerShear(args, "s06")[1]
  /\ result.value.s06[2] # LayerShear(args, "s06")[2]

Facade == {"calc_sounding_stats", "calc_hodograph_stats"}

\* C8: a call of calc_sounding_stats or calc_hodograph_stats leaves the arrays
\* it was given as they were and assigns none of the module's tunables, and a
\* call repeated with equal arrays returns an equal result, whatever was
\* called and whichever tunables were assigned in between.
C8_FacadePure ==
  [][ /\ (call' \in Facade) => after' = args'
      /\ (call' \in Facade /\ <<call, args, after, result>>' # <<call, args, after, result>>)
           => tunables' = tunables
      /\ (call' \in Facade /\ call' = call /\ args' = args) => result' = result
    ]_vars

\* a facade call that returned with four of the tunables assigned anew
C8_Witness ==
  /\ call \in Facade /\ result.status = "return"
  /\ ptop = 50000 /\ pbot = 100000 /\ dp = 2500 /\ skew_angle = 450

---------------------------------------------------------------------------
(* The labels of plot_sounding.                                            *)

\* C9: when the surface parcel has an undefined LFC, EL or LCL, plot_sounding
\* places no '--LFC', '--EL' or '--LCL' label for that level: every such label
\* it places is at a defined pressure.
C9_NoLabelForUndefined ==
  call = "plot_sounding" =>
    \A i \in DOMAIN result.texts :
      result.texts[i].s \in {"--LFC", "--EL", "--LCL"} => result.texts[i].y.defined

---------------------------------------------------------------------------
(* The storm-motion estimate failing.                                      *)

\* C10: if the profile's top level is below 6 km, so that the storm-motion
\* estimate fails (an undefined result or a domain error), the call of
\* calc_hodograph_stats reports the failure and returns no bundle.
C10_FailurePropagates ==
  (call = "calc_hodograph_stats" /\ args.z[Cardinality(DOMAIN args.z) - 1] < 6000)
    => result.status = "raise"

---------------------------------------------------------------------------
(* The unit of the wind speed in a sounding file.                          *)

\* C11: plot_sounding_data reads the wind-speed column as m/s: for every level
\* whose direction and speed are both valid, the wind (u, v) handed to plot is
\* the wind converted from the file's direction and speed, with the speed of
\* the file and no rescaling.
C11_SpeedAsRead ==
  (call = "plot_sounding_data" /\ result.status = "plot") =>
    \A k \in FullyValidLevels(args) :
      /\ result.u[k] = OwnWind(args, k)[1]
      /\ result.v[k] = OwnWind(args, k)[2]

---------------------------------------------------------------------------
(* The isobars.                                                            *)

\* the pressures of the isobar lines a call of draw_isobars drew
IsobarLevels == {result.lines[i].y[1] : i \in DOMAIN result.lines}

\* C12: with the default tunables (pbot = 105000, ptop = 10000,
\* ptickbot = 100000, dp = 5000) any two neighbouring isobar lines that one
\* call of draw_isobars draws are exactly 2*dp = 10000 Pa apart, and every
\* isobar drawn lies within [ptop, pbot].
C12_IsobarSpacing ==
  (call = "draw_isobars" /\ pbot = 105000 /\ ptop = 10000 /\ dp = 5000) =>
    \A y \in IsobarLevels :
      /\ ptop <= y /\ y <= pbot
      /\ \A w \in IsobarLevels :
           (w < y /\ ~ \E m \in IsobarLevels : w < m /\ m < y) => y - w = 2 * dp

---------------------------------------------------------------------------
(* The index bounds of the gap-fill loops and of the hodograph scan.       *)

\* C13: for every combination of missing and valid levels, a sounding with
\* all levels missing included, the gap-fill loops of plot_sounding_data end
\* without reading or writing an index outside 0..nk-1.
C13_GapFillInBounds ==
  call = "plot_sounding_data" => result.status # "IndexError"

\* C14: for every profile of at least two levels with increasing heights, a
\* top level at or below 12000 m included, the level scan of plot_hodograph
\* ends without reading past the last level, and the trace is made of
\* exactly the levels with height <= 12000 m.
C14_ScanTerminates ==
  call = "plot_hodograph" =>
    /\ result.status = "return"
    /\ DOMAIN result.trace.u = {k \in DOMAIN args.z : args.z[k] <= 12000}
    /\ \A k \in DOMAIN result.trace.u :
         result.trace.u[k] = args.u[k] /\ result.trace.v[k] = args.v[k]

---------------------------------------------------------------------------
(* The font scale.                                                         *)

\* C15: after set_fontscalefactor(newfactor) the module's font scale is
\* newfactor, so that label, label_h, label_h2 and label_m size their text
\* with 5, 7, 10 and 4 times newfactor.
C15_FontScaleSet ==
  call = "set_fontscalefactor" => fontscalefactor = args.newfactor

---------------------------------------------------------------------------
(* The moist adiabats.                                                     *)

\* C16: every time draw_moist_adiabat draws a moist adiabat, the list of
\* plotted temperatures has exactly one entry per level of plevs_plot2
\* (105000 Pa down to 20000 Pa in steps of 1000 Pa) in that order, the
\* entries above 100000 Pa integrated downward from 1000 mb, the entry at
\* 100000 Pa the starting temperature and the entries below integrated
\* upward; each starting temperature gives exactly one curve.
C16_OneCurvePerTemperature ==
  call = "draw_moist_adiabat" =>
    /\ plevs_plot2 = arange(105000, 19999, -1000)
    /\ \A i \in DOMAIN result.calls :
         /\ Len(result.calls[i].x) = Len(plevs_plot2)
         /\ \A j \in DOMAIN result.calls[i].x :
              LET pt == result.calls[i].x[j].T
              IN  /\ pt.to = plevs_plot2[j]
                  /\ pt.T0 = result.calls[i].T0
                  /\ pt.leg = IF pt.to > 100000 THEN "down"
                              ELSE IF pt.to = 100000 THEN "start" ELSE "up"
    /\ result.status = "return"
    /\ Len(result.calls) = Len(Temps)
    /\ \A i \in DOMAIN result.calls : result.calls[i].T0 = Temps[i]

============================================================================
